---- MODULE Spec2Model ----
(***************************************************************************)
(* Model of TelegramStrategy (src/src/TelegramStrategy.js): the chat-start *)
(* handler registered in init(), run as one turn per start event with the  *)
(* turns interleaving at their await points, and the three device-facing   *)
(* methods walletAddressVerified, onAttestationProcessRequested and        *)
(* onAddressAdded.  The session store, the order store, the issuer and the *)
(* two message channels are the collaborators the class calls.             *)
(***************************************************************************)
EXTENDS Integers, Sequences, FiniteSets, TLC

(***************************************************************************)
(* Bounds of the model.                                                    *)
(***************************************************************************)
\* start events handled in one behaviour (each turn slot runs one handler)
MaxTurns == 2
\* external calls that reject in one behaviour
MaxFailures == 1
\* calls of the device-facing methods in one behaviour
MaxCalls == 2
\* longest device address of a round trip
MaxAddressLen == 1
\* longest leading part of a session id of a round trip
MaxIdLen == 2

(***************************************************************************)
(* Values.  Strings the code slices or encodes are sequences of one-       *)
(* character strings; a value that may be null/undefined is wrapped:       *)
(* None is <<>>, Some(v) is <<v>>.                                         *)
(***************************************************************************)
None == <<>>
Some(v) == <<v>>
IsSome(o) == Len(o) = 1
Val(o) == o[1]

\* session.id.slice(0, 4) / sessionId.slice(0, 4)
PrefixLen == 4
Slice(s) == SubSeq(s, 1, IF Len(s) < PrefixLen THEN Len(s) ELSE PrefixLen)

\* device addresses: D1 pairs with the service, D2 is an address no session
\* is ever stored for
D1 == <<"0", "D">>
D2 == <<"0", "E">>
Devices == {D1}

SidA == <<"s", "t", "u", "v", "1">>
SidC == <<"w", "x", "y", "z", "1">>
SessionIds == {SidA, SidC}

NoAddress == "none"
Wallets == {"W1"}
\* what the user may submit for verification: a wallet address or not one
WalletInputs == Wallets \cup {"notAnAddress"}

\* ctx.update.message.from: id 0 stands for a missing id, "" for no username
Identities == { [id |-> 7, username |-> "alice"],
                [id |-> 7, username |-> ""],
                [id |-> 0, username |-> "alice"] }

(***************************************************************************)
(* The start payload.  A payload is a sequence of base64 units: B64(c) is  *)
(* the encoding of character c, Junk a character outside the base64        *)
(* alphabet.                                                               *)
(***************************************************************************)
B64(c) == <<"b64", c>>
Junk == <<"junk">>

\* utils.encodeToBase64's last step
Base64Encode(s) == [k \in 1..Len(s) |-> B64(s[k])]

\* Buffer.from(payload, 'base64').toString('utf-8'): characters outside the
\* alphabet are skipped, nothing is thrown
Base64Decode(p) ==
  LET kept == SelectSeq(p, LAMBDA u : u[1] = "b64")
  IN  [k \in 1..Len(kept) |-> kept[k][2]]

HexDigits == {"0", "1", "2", "3", "4", "5", "6", "7", "8", "9",
              "A", "B", "C", "D", "E", "F", "a", "b", "c", "d", "e", "f"}
IsHex(c) == c \in HexDigits
\* a byte below 0x80 is a character on its own
IsAsciiLead(c) == c \in {"0", "1", "2", "3", "4", "5", "6", "7"}
Upper(c) == CASE c = "a" -> "A" [] c = "b" -> "B" [] c = "c" -> "C"
              [] c = "d" -> "D" [] c = "e" -> "E" [] c = "f" -> "F"
              [] OTHER -> c

\* the character with hexadecimal code xy
CharOf(x, y) ==
  LET code == <<x, Upper(y)>>
  IN  CASE code = <<"2", "0">> -> " "
        [] code = <<"2", "5">> -> "%"
        [] code = <<"2", "6">> -> "&"
        [] code = <<"2", "B">> -> "+"
        [] code = <<"3", "D">> -> "="
        [] code = <<"3", "0">> -> "0"
        [] code = <<"3", "1">> -> "1"
        [] code = <<"3", "2">> -> "2"
        [] code = <<"4", "4">> -> "D"
        [] code = <<"4", "5">> -> "E"
        [] code = <<"6", "1">> -> "a"
        [] code = <<"6", "9">> -> "i"
        [] OTHER -> "\\x" \o x \o Upper(y)

\* characters encodeURIComponent and the form serializer escape, with codes
Escaped == {" ", "%", "&", "+", "="}
CodeOf(c) == CASE c = " " -> <<"2", "0">>
               [] c = "%" -> <<"2", "5">>
               [] c = "&" -> <<"2", "6">>
               [] c = "+" -> <<"2", "B">>
               [] c = "=" -> <<"3", "D">>

RECURSIVE Flatten(_)
Flatten(ss) == IF ss = <<>> THEN <<>> ELSE Head(ss) \o Flatten(Tail(ss))

\* EncodeURIComponent escaping nothing
EncodeURIComponentNothing(s) == s

\* encodeURIComponent(s)
EncodeURIComponent(s) ==
  Flatten([k \in 1..Len(s) |->
             IF s[k] \in Escaped THEN <<"%">> \o CodeOf(s[k]) ELSE <<s[k]>>])

\* decodeURIComponent(s): [ok, val]; ok is FALSE where it throws URIError
RECURSIVE DecodeFrom(_, _)
DecodeFrom(s, k) ==
  IF k > Len(s) THEN [ok |-> TRUE, val |-> <<>>]
  ELSE IF s[k] = "%"
       THEN IF k + 2 <= Len(s) /\ IsHex(s[k+1]) /\ IsHex(s[k+2])
                /\ IsAsciiLead(s[k+1])
            THEN LET r == DecodeFrom(s, k + 3)
                 IN  [ok |-> r.ok, val |-> <<CharOf(s[k+1], s[k+2])>> \o r.val]
            ELSE [ok |-> FALSE, val |-> <<>>]
       ELSE LET r == DecodeFrom(s, k + 1)
            IN  [ok |-> r.ok, val |-> <<s[k]>> \o r.val]

DecodeURIComponent(s) == DecodeFrom(s, 1)

\* the percent-decoding of URLSearchParams: "+" is a space, a malformed
\* escape is kept as it is, a byte that is no UTF-8 becomes U+FFFD
RECURSIVE FormDecodeFrom(_, _)
FormDecodeFrom(s, k) ==
  IF k > Len(s) THEN <<>>
  ELSE IF s[k] = "%" /\ k + 2 <= Len(s) /\ IsHex(s[k+1]) /\ IsHex(s[k+2])
       THEN <<IF IsAsciiLead(s[k+1]) THEN CharOf(s[k+1], s[k+2]) ELSE "\\uFFFD">>
            \o FormDecodeFrom(s, k + 3)
       ELSE <<IF s[k] = "+" THEN " " ELSE s[k]>> \o FormDecodeFrom(s, k + 1)

FormDecode(s) == FormDecodeFrom(s, 1)

\* position of the first c in s, 0 when there is none
RECURSIVE IndexFrom(_, _, _)
IndexFrom(s, c, k) ==
  IF k > Len(s) THEN 0 ELSE IF s[k] = c THEN k ELSE IndexFrom(s, c, k + 1)

\* s split at every "&"
RECURSIVE SplitAmp(_)
SplitAmp(s) ==
  LET k == IndexFrom(s, "&", 1)
  IN  IF k = 0 THEN <<s>>
      ELSE <<SubSeq(s, 1, k - 1)>> \o SplitAmp(SubSeq(s, k + 1, Len(s)))

\* new URLSearchParams(text): the name/value pairs, in order
ParsePair(part) ==
  LET k == IndexFrom(part, "=", 1)
  IN  IF k = 0 THEN [name |-> FormDecode(part), value |-> <<>>]
      ELSE [name  |-> FormDecode(SubSeq(part, 1, k - 1)),
            value |-> FormDecode(SubSeq(part, k + 1, Len(part)))]

URLSearchParams(text) ==
  LET parts == SelectSeq(SplitAmp(text), LAMBDA part : part # <<>>)
  IN  [k \in 1..Len(parts) |-> ParsePair(parts[k])]

\* params.get(name): the first value under the name, or null
ParamsGet(params, name) ==
  LET hits == SelectSeq(params, LAMBDA pr : pr.name = name)
  IN  IF hits = <<>> THEN None ELSE Some(hits[1].value)

\* String(new URLSearchParams({a: deviceAddress, i: prefix}))
FormEncode(s) ==
  Flatten([k \in 1..Len(s) |->
             IF s[k] = " " THEN <<"+">>
             ELSE IF s[k] \in Escaped THEN <<"%">> \o CodeOf(s[k]) ELSE <<s[k]>>])

QueryString(deviceAddress, prefix) ==
  <<"a", "=">> \o FormEncode(deviceAddress) \o <<"&", "i", "=">> \o FormEncode(prefix)

\* utils.encodeToBase64(query): base64(urlencoded(query)), the deep-link format
EncodeToBase64(text) == Base64Encode(EncodeURIComponent(text))


(***************************************************************************)
(* Start payloads a chat client may deliver.                               *)
(***************************************************************************)
\* the payload of the deep link built for a device and a session id
Link(deviceAddress, sid) == EncodeToBase64(QueryString(deviceAddress, Slice(sid)))

NoPayload == <<>>
\* a link with a character outside the base64 alphabet put in front
JunkLink == <<Junk>> \o Link(D1, SidA)
\* nothing but characters outside the base64 alphabet
JunkOnly == <<Junk, Junk>>
\* base64 of "a=0D%": a "%" that starts no escape
BadEscape == Base64Encode(<<"a", "=", "0", "D", "%">>)
\* base64 of "a%3D0D": the device address and no i parameter
NoSessionParam == EncodeToBase64(<<"a", "=", "0", "D">>)

Payloads == {Link(D1, SidA), Link(D1, SidC), Link(D2, SidA),
             NoPayload, JunkLink, JunkOnly, BadEscape, NoSessionParam}

(***************************************************************************)
(* State.                                                                  *)
(***************************************************************************)
VARIABLES
  sessions,   \* sessionStore: device address -> None or Some([id, address])
  orders,     \* order store: sequence of orders, an order's id is its index
  ledger,     \* the issuer: the profiles posted, each with its unit
  turns,      \* the start handler's invocations, one per turn slot
  device,     \* the calls of the device-facing methods and what each sent
  failures,   \* external calls that have rejected so far
  spent,      \* history: the device addresses whose link ended in a successful
              \* attestation and that the pairing flow has not paired again
  trip        \* one link followed from walletAddressVerified to the handler

vars == <<sessions, orders, ledger, turns, device, failures, spent, trip>>

Turns == 1..MaxTurns

NoUnit == 0
NoOrder == 0

Chat(text, unit) == [text |-> text, unit |-> unit]
ToDevice(to, text, unit) == [to |-> to, text |-> text, unit |-> unit]

IdleTurn ==
  [ pc            |-> "idle",
    payload       |-> NoPayload,
    from          |-> [id |-> 0, username |-> ""],
    address       |-> NoAddress,   \* let address
    deviceAddress |-> None,        \* let deviceAddress
    sessionId     |-> None,        \* let sessionId
    session       |-> None,        \* const session, of which .id is read
    found         |-> "unread",    \* existingAttestation: "none" or its status
    orderId       |-> NoOrder,     \* let orderId
    order         |-> None,        \* const order, read with excludeAttested
    unit          |-> NoUnit,      \* const unit
    marked        |-> FALSE,       \* its updateUnitAndChangeStatus changed an order
    replies       |-> <<>>,        \* ctx.reply, in order
    devMsgs       |-> <<>>,        \* device.sendMessageToDevice, in order
    calls         |-> <<>>,        \* calls of the collaborators, in order
    failed        |-> "",          \* the call that rejected, if one did
    reopened      |-> FALSE,       \* history: the link's device address was spent
    outcome       |-> "running" ]

\* no link is followed
NoTrip == [stage |-> "none", deviceAddress |-> <<>>, session |-> [id |-> <<>>],
           payload |-> NoPayload, decoded |-> None, check |-> ""]

Init ==
  /\ trip = NoTrip
  /\ sessions = [d \in Devices |-> None]
  /\ orders = <<>>
  /\ ledger = <<>>
  /\ turns = [t \in Turns |-> IdleTurn]
  /\ device = <<>>
  /\ failures = 0
  /\ spent = {}

(***************************************************************************)
(* The collaborators.                                                      *)
(***************************************************************************)
\* sessionStore.getSession(deviceAddress)
GetSession(deviceAddress) ==
  IF IsSome(deviceAddress) /\ Val(deviceAddress) \in Devices
  THEN sessions[Val(deviceAddress)] ELSE None

\* sessionStore.getSessionWalletAddress(deviceAddress)
GetSessionWalletAddress(deviceAddress) ==
  LET s == GetSession(deviceAddress)
  IN  IF IsSome(s) THEN Val(s).address ELSE NoAddress

\* DeleteSessionOf with the session left in the store
DeleteSessionOfNothing(deviceAddress) == sessions

\* sessionStore.deleteSession(deviceAddress)
DeleteSessionOf(deviceAddress) ==
  IF IsSome(deviceAddress) /\ Val(deviceAddress) \in Devices
  THEN [sessions EXCEPT ![Val(deviceAddress)] = None] ELSE sessions

\* validate.isWalletAddress(walletAddress)
IsWalletAddress(w) == w \in Wallets

Matches(o, data, address, excludeAttested) ==
  /\ o.data = data
  /\ o.address = address
  /\ excludeAttested => o.status # "attested"

\* db.getAttestationOrders({data, address, excludeAttested})
GetAttestationOrders(data, address, excludeAttested) ==
  LET ids == {k \in 1..Len(orders) : Matches(orders[k], data, address, excludeAttested)}
  IN  IF ids = {} THEN None
      ELSE Some(orders[CHOOSE k \in ids : \A j \in ids : k <= j])

\* db.createAttestationOrder(data, address, true): the store with the new order
CreateAttestationOrder(data, address) ==
  Append(orders, [id |-> Len(orders) + 1, data |-> data, address |-> address,
                  status |-> "pending", unit |-> NoUnit,
                  user_device_address |-> None])

\* db.updateWalletAddressInAttestationOrder(orderId, address)
UpdateWalletAddressInAttestationOrder(os, orderId, address) ==
  [os EXCEPT ![orderId].address = address]

\* db.updateDeviceAddressInAttestationOrder(orderId, deviceAddress)
UpdateDeviceAddressInAttestationOrder(orderId, deviceAddress) ==
  [orders EXCEPT ![orderId].user_device_address = Some(deviceAddress)]

\* db.updateUnitAndChangeStatus(data, address, unit): the orders of the pair
\* that are not attested yet get the unit and the status "attested"
UpdateUnitAndChangeStatus(data, address, unit) ==
  [k \in 1..Len(orders) |->
     IF Matches(orders[k], data, address, TRUE)
     THEN [orders[k] EXCEPT !.status = "attested", !.unit = unit]
     ELSE orders[k]]

\* utils.postAttestationProfile(address, data): the ledger with the profile
\* posted; the unit returned is the number of the new entry
PostAttestationProfile(address, data) ==
  Append(ledger, [address |-> address, data |-> data, unit |-> Len(ledger) + 1])

CanFail(ok) == ok \/ failures < MaxFailures
Failed(ok) == failures + (IF ok THEN 0 ELSE 1)


(***************************************************************************)
(* The chat-start handler, client.start(async (ctx) => ...), one action    *)
(* per stretch between two calls that read or write shared state.          *)
(***************************************************************************)
\* DecodePayload with the decoding of URLSearchParams, which throws nothing,
\* in the place of decodeURIComponent
DecodePayloadLenient(p) ==
  LET params == URLSearchParams(FormDecode(Base64Decode(p)))
  IN  [threw |-> FALSE, deviceAddress |-> ParamsGet(params, <<"a">>),
       sessionId |-> ParamsGet(params, <<"i">>)]

\* lines 89-94: [threw, deviceAddress, sessionId] of a payload that is there
DecodePayload(p) ==
  LET dec == DecodeURIComponent(Base64Decode(p))
      params == URLSearchParams(dec.val)
  IN  IF dec.ok
      THEN [threw |-> FALSE, deviceAddress |-> ParamsGet(params, <<"a">>),
            sessionId |-> ParamsGet(params, <<"i">>)]
      ELSE [threw |-> TRUE, deviceAddress |-> None, sessionId |-> None]

\* DecodePayload over the payloads of the model
Decoded == [p \in Payloads |-> DecodePayload(p)]

\* IdentityMissing with the user id left unchecked
IdentityMissingUsernameOnly(from) == from.username = ""

\* line 106: !username || !userId
IdentityMissing(from) == from.username = "" \/ from.id = 0

\* SessionCheck with the comparison of the prefixes left out
SessionCheckPresenceOnly(session, sessionId) ==
  IF ~IsSome(session) THEN "invalid"
  ELSE IF ~IsSome(sessionId) THEN "throws"
  ELSE "ok"

\* line 110: !session || session.id.slice(0, 4) !== sessionId.slice(0, 4);
\* "throws" where sessionId is null and .slice is read of it
SessionCheck(session, sessionId) ==
  IF ~IsSome(session) THEN "invalid"
  ELSE IF ~IsSome(sessionId) THEN "throws"
  ELSE IF Slice(Val(session).id) # Slice(Val(sessionId)) THEN "invalid"
  ELSE "ok"

\* HasAddress with the branch always taken
HasAddressAlways(address) == TRUE

\* line 114: if (address)
HasAddress(address) == address # NoAddress

\* IsAttested comparing with a status no order has
IsAttestedWrongStatus(o) == o.status = "attest"

\* line 122: existingAttestation.status === "attested"
IsAttested(o) == o.status = "attested"

\* subject data of a turn: { username, userId }
DataOf(tn) == [userId |-> tn.from.id, username |-> tn.from.username]

\* the handler returns after its last reply
Finish(tn, outcome, replies) ==
  [tn EXCEPT !.pc = "done", !.outcome = outcome, !.replies = @ \o replies]

\* an error leaves the handler: client.catch replies (lines 78-81)
Escape(tn) == Finish(tn, "escaped", <<Chat("INTERCEPTOR", NoUnit)>>)

\* lines 84-106: decode the payload, read the wallet address, welcome, and
\* check the identity
Start(t, p, from, again) ==
  /\ turns[t].pc = "idle" \/ (again /\ turns[t].pc = "done")
  /\ t > 1 => turns[t - 1].pc # "idle"
  /\ \E ok \in BOOLEAN :
       LET dec == IF p = NoPayload
                  THEN [threw |-> FALSE, deviceAddress |-> None, sessionId |-> None]
                  ELSE Decoded[p]
           reads == p # NoPayload /\ ~dec.threw
           tn == [IdleTurn EXCEPT
                    !.payload = p, !.from = from,
                    !.deviceAddress = dec.deviceAddress,
                    !.sessionId = dec.sessionId,
                    !.address = IF reads /\ ok
                                THEN GetSessionWalletAddress(dec.deviceAddress)
                                ELSE NoAddress,
                    !.calls = IF reads THEN <<"getSessionWalletAddress">> ELSE <<>>,
                    !.failed = IF ok THEN "" ELSE "getSessionWalletAddress",
                    !.reopened = IsSome(dec.deviceAddress)
                                 /\ Val(dec.deviceAddress) \in spent]
       IN  /\ CanFail(ok)
           /\ ~reads => ok
           /\ failures' = Failed(ok)
           /\ turns' = [turns EXCEPT ![t] =
                 IF dec.threw \/ ~ok
                 THEN Finish(tn, "decodeError", <<Chat("DECODE_ERROR", NoUnit)>>)
                 ELSE IF IdentityMissing(from)
                 THEN Finish(tn, "noIdentity", <<Chat("WELCOME", NoUnit),
                                                 Chat("USERNAME_NOT_FOUND", NoUnit)>>)
                 ELSE [tn EXCEPT !.pc = "getSession",
                                 !.replies = <<Chat("WELCOME", NoUnit)>>]]
  /\ UNCHANGED <<sessions, orders, ledger, device, spent, trip>>

\* lines 108-116: read the session, compare the prefixes, require the address
CheckSession(t) ==
  LET read == GetSession(turns[t].deviceAddress)
      tn == [turns[t] EXCEPT
               !.calls = Append(@, "getSession"),
               !.session = IF IsSome(read) THEN Some([id |-> Val(read).id]) ELSE None]
      check == SessionCheck(tn.session, tn.sessionId)
  IN  /\ turns[t].pc = "getSession"
      /\ turns' = [turns EXCEPT ![t] =
            IF check = "invalid"
            THEN Finish(tn, "invalidSession", <<Chat("INVALID_SESSION", NoUnit)>>)
            ELSE IF check = "throws" THEN Escape(tn)
            ELSE IF ~HasAddress(tn.address)
            THEN Finish(tn, "noAddress", <<Chat("PAIRING", NoUnit)>>)
            ELSE [tn EXCEPT !.pc = "lookup",
                            !.replies = Append(@, Chat("ATTESTATION_DATA", NoUnit))]]
      /\ UNCHANGED <<sessions, orders, ledger, device, failures, spent, trip>>

\* lines 118-137: look the order up; answer an attested one, reuse a pending
\* one (its address updated, not awaited, when it differs)
Lookup(t) ==
  /\ turns[t].pc = "lookup"
  /\ \E ok \in BOOLEAN :
       LET existing == GetAttestationOrders(DataOf(turns[t]), turns[t].address, FALSE)
           o == Val(existing)
           tn == [turns[t] EXCEPT
                    !.calls = Append(@, "getAttestationOrders"),
                    !.failed = IF ok THEN "" ELSE "getAttestationOrders",
                    !.found = IF ~ok THEN "unread"
                              ELSE IF IsSome(existing) THEN o.status ELSE "none"]
       IN  /\ CanFail(ok)
           /\ failures' = Failed(ok)
           /\ IF ~ok
              THEN /\ turns' = [turns EXCEPT ![t] = Escape(tn)]
                   /\ orders' = orders
              ELSE IF ~IsSome(existing)
              THEN /\ turns' = [turns EXCEPT ![t] =
                                  [tn EXCEPT !.pc = "create"]]
                   /\ orders' = orders
              ELSE IF IsAttested(o)
              THEN /\ turns' = [turns EXCEPT ![t] =
                         Finish([tn EXCEPT
                                   !.devMsgs = IF IsSome(tn.deviceAddress)
                                               THEN Append(@, ToDevice(Val(tn.deviceAddress),
                                                             "ALREADY_ATTESTED", o.unit))
                                               ELSE @],
                                "alreadyAttested", <<Chat("ALREADY_ATTESTED", NoUnit)>>)]
                   /\ orders' = orders
              ELSE /\ turns' = [turns EXCEPT ![t] =
                         [tn EXCEPT !.pc = "attach",
                                    !.orderId = o.id,
                                    !.calls = IF o.address # tn.address
                                              THEN Append(@, "updateWalletAddressInAttestationOrder")
                                              ELSE @]]
                   /\ orders' = IF o.address # tn.address
                                THEN UpdateWalletAddressInAttestationOrder(orders, o.id, tn.address)
                                ELSE orders
  /\ UNCHANGED <<sessions, ledger, device, spent, trip>>

\* line 139: no order found, create one
Create(t) ==
  /\ turns[t].pc = "create"
  /\ \E ok \in BOOLEAN :
       LET tn == [turns[t] EXCEPT
                    !.calls = Append(@, "createAttestationOrder"),
                    !.failed = IF ok THEN "" ELSE "createAttestationOrder"]
       IN  /\ CanFail(ok)
           /\ failures' = Failed(ok)
           /\ IF ok
              THEN /\ orders' = CreateAttestationOrder(DataOf(tn), tn.address)
                   /\ turns' = [turns EXCEPT ![t] =
                         [tn EXCEPT !.pc = "attach", !.orderId = Len(orders) + 1]]
              ELSE /\ orders' = orders
                   /\ turns' = [turns EXCEPT ![t] = Escape(tn)]
  /\ UNCHANGED <<sessions, ledger, device, spent, trip>>

\* lines 142-144: attach the device address to the order
Attach(t) ==
  /\ turns[t].pc = "attach"
  /\ \E ok \in BOOLEAN :
       LET has == IsSome(turns[t].deviceAddress)
           tn == [turns[t] EXCEPT
                    !.calls = IF has
                              THEN Append(@, "updateDeviceAddressInAttestationOrder")
                              ELSE @,
                    !.failed = IF ok THEN ""
                               ELSE "updateDeviceAddressInAttestationOrder"]
       IN  /\ CanFail(ok)
           /\ ~has => ok
           /\ failures' = Failed(ok)
           /\ IF ok
              THEN /\ orders' = IF has
                                THEN UpdateDeviceAddressInAttestationOrder(
                                       tn.orderId, Val(tn.deviceAddress))
                                ELSE orders
                   /\ turns' = [turns EXCEPT ![t] = [tn EXCEPT !.pc = "reread"]]
              ELSE /\ orders' = orders
                   /\ turns' = [turns EXCEPT ![t] = Escape(tn)]
  /\ UNCHANGED <<sessions, ledger, device, spent, trip>>

\* the catch of lines 166-169
Caught(tn) == Finish(tn, "caught", <<Chat("UNKNOWN_ERROR", NoUnit)>>)

\* lines 149-151: delete the prompt message, read the order again, attested
\* orders excluded
Reread(t) ==
  /\ turns[t].pc = "reread"
  /\ \E failing \in {"none", "deleteMessage", "getAttestationOrders"} :
       LET ok == failing = "none"
           tn == [turns[t] EXCEPT
                    !.calls = IF failing = "deleteMessage"
                              THEN Append(@, "deleteMessage")
                              ELSE @ \o <<"deleteMessage", "getAttestationOrders">>,
                    !.failed = IF ok THEN "" ELSE failing]
       IN  /\ CanFail(ok)
           /\ failures' = Failed(ok)
           /\ turns' = [turns EXCEPT ![t] =
                 IF ok
                 THEN [tn EXCEPT !.pc = "post",
                                 !.order = GetAttestationOrders(DataOf(tn), tn.address, TRUE)]
                 ELSE Caught(tn)]
  /\ UNCHANGED <<sessions, orders, ledger, device, spent, trip>>

\* line 153: utils.postAttestationProfile(address, dataObj)
Post(t) ==
  /\ turns[t].pc = "post"
  /\ \E ok \in BOOLEAN :
       LET tn == [turns[t] EXCEPT
                    !.calls = Append(@, "postAttestationProfile"),
                    !.failed = IF ok THEN "" ELSE "postAttestationProfile"]
       IN  /\ CanFail(ok)
           /\ failures' = Failed(ok)
           /\ IF ok
              THEN /\ ledger' = PostAttestationProfile(tn.address, DataOf(tn))
                   /\ turns' = [turns EXCEPT ![t] =
                         [tn EXCEPT !.pc = "update", !.unit = Len(ledger')]]
              ELSE /\ ledger' = ledger
                   /\ turns' = [turns EXCEPT ![t] = Caught(tn)]
  /\ UNCHANGED <<sessions, orders, device, spent, trip>>

\* line 155: db.updateUnitAndChangeStatus(dataObj, address, unit)
Update(t) ==
  /\ turns[t].pc = "update"
  /\ \E ok \in BOOLEAN :
       LET tn == [turns[t] EXCEPT
                    !.calls = Append(@, "updateUnitAndChangeStatus"),
                    !.failed = IF ok THEN "" ELSE "updateUnitAndChangeStatus"]
           updated == UpdateUnitAndChangeStatus(DataOf(tn), tn.address, tn.unit)
       IN  /\ CanFail(ok)
           /\ failures' = Failed(ok)
           /\ IF ok
              THEN /\ orders' = updated
                   /\ turns' = [turns EXCEPT ![t] =
                         [tn EXCEPT !.pc = "deleteSession",
                                    !.marked = (updated # orders)]]
              ELSE /\ orders' = orders
                   /\ turns' = [turns EXCEPT ![t] = Caught(tn)]
  /\ UNCHANGED <<sessions, ledger, device, spent, trip>>

\* lines 156-165: delete the session, confirm in the chat, then read
\* order.user_device_address (a TypeError when order is null, caught at 166)
\* and confirm to the device attached to the order
DeleteSession(t) ==
  /\ turns[t].pc = "deleteSession"
  /\ \E ok \in BOOLEAN :
       LET tn == [turns[t] EXCEPT
                    !.calls = Append(@, "deleteSession"),
                    !.failed = IF ok THEN "" ELSE "deleteSession"]
           confirmed == [tn EXCEPT !.replies = Append(@, Chat("ATTESTED", tn.unit))]
       IN  /\ CanFail(ok)
           /\ failures' = Failed(ok)
           /\ IF ~ok
              THEN /\ sessions' = sessions
                   /\ turns' = [turns EXCEPT ![t] = Caught(tn)]
              ELSE /\ sessions' = DeleteSessionOf(tn.deviceAddress)
                   /\ turns' = [turns EXCEPT ![t] =
                         IF ~IsSome(tn.order) THEN Caught(confirmed)
                         ELSE Finish([confirmed EXCEPT
                                        !.devMsgs =
                                          IF IsSome(Val(tn.order).user_device_address)
                                          THEN Append(@, ToDevice(
                                                 Val(Val(tn.order).user_device_address),
                                                 "ATTESTED", tn.unit))
                                          ELSE @],
                                     "attested", <<>>)]
           /\ spent' = IF ok /\ IsSome(tn.order) /\ IsSome(tn.deviceAddress)
                       THEN spent \cup {Val(tn.deviceAddress)}
                       ELSE spent
  /\ UNCHANGED <<orders, ledger, device, trip>>


(***************************************************************************)
(* The session store's own life: the pairing flow creates a session and    *)
(* records the verified wallet address in it, and a session expires.       *)
(***************************************************************************)
CreateSession(d, sid) ==
  /\ sessions[d] = None
  /\ sessions' = [sessions EXCEPT ![d] = Some([id |-> sid, address |-> NoAddress])]
  /\ spent' = spent \ {d}
  /\ UNCHANGED <<orders, ledger, turns, device, failures, trip>>

SetSessionWalletAddress(d, w) ==
  /\ IsSome(sessions[d])
  /\ Val(sessions[d]).address = NoAddress
  /\ sessions' = [sessions EXCEPT ![d] = Some([Val(@) EXCEPT !.address = w])]
  /\ UNCHANGED <<orders, ledger, turns, device, failures, spent, trip>>

ExpireSession(d) ==
  /\ IsSome(sessions[d])
  /\ sessions' = [sessions EXCEPT ![d] = None]
  /\ UNCHANGED <<orders, ledger, turns, device, failures, spent, trip>>

(***************************************************************************)
(* The device-facing methods.  device holds the last call: the messages it *)
(* passed to device.sendMessageToDevice, whether it read the session store *)
(* and whether it threw.                                                   *)
(***************************************************************************)
DeviceMsg(text, wallet, link) == [text |-> text, wallet |-> wallet, link |-> link]

\* a call: the method, its arguments, what getSession returned if it was
\* called, the messages sent, and whether the method threw
DeviceCall(op, d, w, read, session, msgs, threw) ==
  [op |-> op, to |-> d, wallet |-> w, readSession |-> read, session |-> session,
   msgs |-> msgs, threw |-> threw]

\* lines 38-40: the payload put after "?start=" in the link
StartPayload(deviceAddress, session) ==
  EncodeToBase64(QueryString(deviceAddress, Slice(session.id)))

\* lines 34-47; session.id of no session is a TypeError
WalletAddressVerified(d, w) ==
  LET session == GetSession(Some(d))
  IN  /\ Len(device) < MaxCalls
      /\ device' = Append(device,
           IF IsWalletAddress(w)
           THEN IF IsSome(session)
                THEN DeviceCall("walletAddressVerified", d, w, TRUE, session,
                                <<DeviceMsg("VERIFIED", w, None),
                                  DeviceMsg("CONTINUE", NoAddress,
                                            Some(StartPayload(d, Val(session))))>>,
                                FALSE)
                ELSE DeviceCall("walletAddressVerified", d, w, TRUE, session,
                                <<>>, TRUE)
           ELSE DeviceCall("walletAddressVerified", d, w, FALSE, None,
                           <<DeviceMsg("INVALID_WALLET_ADDRESS", NoAddress, None)>>,
                           FALSE))
      /\ UNCHANGED <<sessions, orders, ledger, turns, failures, spent, trip>>

\* OnAttestationProcessRequestedMsgs with the welcome sent whatever the session
OnAttestationProcessRequestedMsgsWelcomeAlways(session) ==
  <<DeviceMsg("WELCOME", NoAddress, None), DeviceMsg("ASK_ADDRESS", NoAddress, None)>>

\* lines 52-56: the messages sent once the session is read
OnAttestationProcessRequestedMsgs(session) ==
  (IF ~IsSome(session) THEN <<DeviceMsg("WELCOME", NoAddress, None)>> ELSE <<>>)
  \o <<DeviceMsg("ASK_ADDRESS", NoAddress, None)>>

\* lines 49-57
OnAttestationProcessRequested(d) ==
  LET session == GetSession(Some(d))
  IN  /\ Len(device) < MaxCalls
      /\ device' = Append(device,
           DeviceCall("onAttestationProcessRequested", d, NoAddress, TRUE, session,
                      OnAttestationProcessRequestedMsgs(session), FALSE))
      /\ UNCHANGED <<sessions, orders, ledger, turns, failures, spent, trip>>

\* lines 59-61
OnAddressAdded(d, w) ==
  /\ Len(device) < MaxCalls
  /\ device' = Append(device,
       DeviceCall("onAddressAdded", d, w, FALSE, None,
                  <<DeviceMsg("ASK_VERIFY", w, None)>>, FALSE))
  /\ UNCHANGED <<sessions, orders, ledger, turns, failures, spent, trip>>

(***************************************************************************)
(* Specifications.                                                         *)
(* Spec: the transport hands the handler one start event at a time, with   *)
(* any payload and identity, against a session store that pairs and        *)
(* expires sessions.                                                       *)
(* RaceSpec: MaxTurns start events of one user opening one link are        *)
(* handled at once and interleave at their await points, while their       *)
(* sessions last.                                                          *)
(* DeviceSpec: the device-facing methods against the session store; they   *)
(* write nothing a start turn reads.                                       *)
(***************************************************************************)
\* the pairing flow handing out the session ids Ids
Pairing(Ids) ==
  \/ \E d \in Devices, sid \in Ids : CreateSession(d, sid)
  \/ \E d \in Devices, w \in Wallets : SetSessionWalletAddress(d, w)

Expiry == \E d \in Devices : ExpireSession(d)

\* the handler run for start events carrying payloads P from identities I, in
\* the turn slots S; again: a slot whose handler has returned takes the next
\* event
Handler(P, I, S, again) ==
  \/ \E t \in S, p \in P, from \in I : Start(t, p, from, again)
  \/ \E t \in S : CheckSession(t)
  \/ \E t \in S : Lookup(t)
  \/ \E t \in S : Create(t)
  \/ \E t \in S : Attach(t)
  \/ \E t \in S : Reread(t)
  \/ \E t \in S : Post(t)
  \/ \E t \in S : Update(t)
  \/ \E t \in S : DeleteSession(t)

Next == Pairing(SessionIds) \/ Expiry \/ Handler(Payloads, Identities, {1}, TRUE)

Spec == Init /\ [][Next]_vars

RacePayloads == {Link(D1, SidA)}
RaceIdentities == { [id |-> 7, username |-> "alice"] }

RaceNext == Pairing({SidA}) \/ Handler(RacePayloads, RaceIdentities, Turns, FALSE)

RaceSpec == Init /\ [][RaceNext]_vars

DeviceNext ==
  \/ Pairing(SessionIds)
  \/ Expiry
  \/ \E d \in Devices, w \in WalletInputs : WalletAddressVerified(d, w)
  \/ \E d \in Devices : OnAttestationProcessRequested(d)
  \/ \E d \in Devices, w \in WalletInputs : OnAddressAdded(d, w)

DeviceSpec == Init /\ [][DeviceNext]_vars

(***************************************************************************)
(* RoundTripSpec: the start payload as a function.  One link is followed:  *)
(* walletAddressVerified builds it for a device address and the session    *)
(* stored for it, and the start handler decodes it and compares it with    *)
(* the same session.  The addresses and session ids are strings with the   *)
(* characters the two encodings treat specially.                           *)
(***************************************************************************)
TripChars == {"0", " ", "%", "&", "+", "="}

\* the strings over S of length lo to hi
Strings(S, lo, hi) == UNION {[1..n -> S] : n \in lo..hi}

TripAddresses == Strings(TripChars, 1, MaxAddressLen)

\* session ids of up to MaxIdLen characters, and these followed by "tuv":
\* shorter than, as long as and longer than the prefix of the link
TripSessionIds ==
  {x \o tl : x \in Strings(TripChars, 0, MaxIdLen), tl \in {<<>>, <<"t", "u", "v">>}}

RoundTripInit ==
  /\ sessions = [d \in Devices |-> None]
  /\ orders = <<>>
  /\ ledger = <<>>
  /\ turns = [t \in Turns |-> IdleTurn]
  /\ device = <<>>
  /\ failures = 0
  /\ spent = {}
  /\ \E d \in TripAddresses, sid \in TripSessionIds :
       trip = [NoTrip EXCEPT !.stage = "verified", !.deviceAddress = d,
                             !.session = [id |-> sid]]

\* lines 36-40: the payload of the link sent to the device
TripEncode ==
  /\ trip.stage = "verified"
  /\ trip' = [trip EXCEPT !.stage = "linked",
                          !.payload = StartPayload(trip.deviceAddress, trip.session)]
  /\ UNCHANGED <<sessions, orders, ledger, turns, device, failures, spent>>

\* lines 89-94 and 108-110: the payload decoded and compared with the session
\* that getSession returns for the decoded device address
TripDecode ==
  /\ trip.stage = "linked"
  /\ trip.payload # NoPayload
  /\ LET dec == DecodePayload(trip.payload)
         session == IF dec.deviceAddress = Some(trip.deviceAddress)
                    THEN Some(trip.session) ELSE None
     IN  trip' = [trip EXCEPT !.stage = "opened",
                              !.decoded = Some(dec),
                              !.check = IF dec.threw THEN "decodeError"
                                        ELSE SessionCheck(session, dec.sessionId)]
  /\ UNCHANGED <<sessions, orders, ledger, turns, device, failures, spent>>

RoundTripNext == TripEncode \/ TripDecode

RoundTripSpec == RoundTripInit /\ [][RoundTripNext]_vars


(***************************************************************************)
(* Properties.                                                             *)
(***************************************************************************)
Called(tn, c) == \E k \in 1..Len(tn.calls) : tn.calls[k] = c

OrderMutations == {"createAttestationOrder", "updateWalletAddressInAttestationOrder",
                   "updateDeviceAddressInAttestationOrder", "updateUnitAndChangeStatus"}

\* the turn created or updated no order, requested no issuance and deleted
\* no session
NoEffects(tn) ==
  \A k \in 1..Len(tn.calls) :
    tn.calls[k] \notin OrderMutations \cup {"postAttestationProfile", "deleteSession"}

LastReply(tn) == tn.replies[Len(tn.replies)]

SamePair(tn, un) == DataOf(tn) = DataOf(un) /\ tn.address = un.address

\* C1: for one (subject data, wallet address) pair, also when its start
\* turns interleave, at most one profile is posted to the issuer and at most
\* one turn has its updateUnitAndChangeStatus move an order to "attested".
C1_AttestedAtMostOnce ==
  /\ \A i, j \in 1..Len(ledger) :
       (ledger[i].data = ledger[j].data /\ ledger[i].address = ledger[j].address)
         => i = j
  /\ \A t, u \in Turns :
       (t # u /\ SamePair(turns[t], turns[u]))
         => ~(turns[t].marked /\ turns[u].marked)

\* C2: a turn whose order lookup returned an attested order has returned
\* with ALREADY_ATTESTED as its last reply, and has called neither
\* postAttestationProfile nor a call that creates or updates an order nor
\* deleteSession.
C2_AttestedShortCircuit ==
  \A t \in Turns :
    turns[t].found = "attested"
      => /\ turns[t].pc = "done"
         /\ LastReply(turns[t]) = Chat("ALREADY_ATTESTED", NoUnit)
         /\ NoEffects(turns[t])

C2_Witness ==
  \E t \in Turns :
    /\ turns[t].found = "attested"
    /\ turns[t].pc = "done"
    /\ IsSome(GetSession(turns[t].deviceAddress))

\* the session read at line 108 is missing, or its prefix differs from the
\* prefix of the payload's i
SessionMismatch(tn) ==
  /\ Called(tn, "getSession")
  /\ \/ ~IsSome(tn.session)
     \/ /\ IsSome(tn.sessionId)
        /\ Slice(Val(tn.session).id) # Slice(Val(tn.sessionId))

\* C3: a turn with an identity whose session lookup returned no session, or a
\* session whose first four characters differ from those of the payload's
\* session id, has replied INVALID_SESSION last and returned, without
\* creating or updating an order, requesting issuance or deleting a session.
C3_InvalidSession ==
  \A t \in Turns :
    SessionMismatch(turns[t])
      => /\ turns[t].pc = "done"
         /\ turns[t].replies = <<Chat("WELCOME", NoUnit), Chat("INVALID_SESSION", NoUnit)>>
         /\ NoEffects(turns[t])

C3_Witness ==
  \E t \in Turns :
    /\ turns[t].pc = "done"
    /\ IsSome(turns[t].session)
    /\ IsSome(turns[t].sessionId)
    /\ Slice(Val(turns[t].session).id) # Slice(Val(turns[t].sessionId))

\* the payload holds a character outside the base64 alphabet
HasJunk(p) == \E k \in 1..Len(p) : p[k] = Junk

\* malformed as base64 or, once base64-decoded, as URL encoding
Malformed(p) == HasJunk(p) \/ ~DecodeURIComponent(Base64Decode(p)).ok

\* C4 as stated: a turn whose payload is malformed, as base64 or as URL
\* encoding, ends with the decode-error message as its only reply and without
\* creating or updating an order, requesting issuance or deleting a session.
C4_MalformedPayloadRejected ==
  \A t \in Turns :
    (turns[t].pc = "done" /\ Malformed(turns[t].payload))
      => /\ turns[t].replies = <<Chat("DECODE_ERROR", NoUnit)>>
         /\ NoEffects(turns[t])

\* C4 amended: a turn whose payload, base64-decoded, is no valid URI encoding
\* (decodeURIComponent throws) has returned with the decode-error message as
\* its only reply and has called no collaborator.
C4_DecodeFailure ==
  \A t \in Turns :
    (turns[t].pc # "idle" /\ ~DecodeURIComponent(Base64Decode(turns[t].payload)).ok)
      => /\ turns[t].pc = "done"
         /\ turns[t].replies = <<Chat("DECODE_ERROR", NoUnit)>>
         /\ turns[t].calls = <<>>
         /\ turns[t].devMsgs = <<>>

C4_Witness ==
  \E t \in Turns :
    /\ turns[t].pc = "done"
    /\ turns[t].payload = BadEscape
    /\ turns[t].replies = <<Chat("DECODE_ERROR", NoUnit)>>

\* C5: there is at most one order per (subject data, wallet address), and a
\* turn that found no order and went on has called createAttestationOrder and
\* then updateDeviceAddressInAttestationOrder right after its lookup.
C5_OrderCreatedOnce ==
  /\ \A i, j \in 1..Len(orders) :
       (orders[i].data = orders[j].data /\ orders[i].address = orders[j].address)
         => i = j
  /\ \A t \in Turns :
       (turns[t].found = "none" /\ Called(turns[t], "postAttestationProfile"))
         => SubSeq(turns[t].calls, 4, 5) =
              <<"createAttestationOrder", "updateDeviceAddressInAttestationOrder">>

\* C6: a turn that found its order not attested and returned with no call
\* failing has called postAttestationProfile, updateUnitAndChangeStatus and
\* deleteSession last and in this order, an order of its pair is attested
\* with the unit the turn got, the chat got the confirmation with that unit
\* last, and the device attached to the order got it too.
C6_SuccessPathOrder ==
  \A t \in Turns :
    LET tn == turns[t] IN
    (tn.pc = "done" /\ tn.failed = "" /\ tn.found \in {"none", "pending"})
      => /\ SubSeq(tn.calls, Len(tn.calls) - 2, Len(tn.calls)) =
              <<"postAttestationProfile", "updateUnitAndChangeStatus", "deleteSession">>
         /\ \E k \in 1..Len(orders) :
              /\ Matches(orders[k], DataOf(tn), tn.address, FALSE)
              /\ orders[k].status = "attested"
              /\ orders[k].unit = tn.unit
         /\ LastReply(tn) = Chat("ATTESTED", tn.unit)
         /\ IsSome(tn.order)
         /\ IsSome(Val(tn.order).user_device_address)
         /\ tn.devMsgs = <<ToDevice(Val(Val(tn.order).user_device_address),
                                    "ATTESTED", tn.unit)>>

\* the calls of the issuance sequence: lines 118-156
IssuanceCalls == {"getAttestationOrders", "createAttestationOrder",
                  "updateWalletAddressInAttestationOrder",
                  "updateDeviceAddressInAttestationOrder", "deleteMessage",
                  "postAttestationProfile", "updateUnitAndChangeStatus",
                  "deleteSession"}

\* C7: a turn in which a call of the issuance sequence rejected was answered
\* by the handler itself, with the unknown-error reply last, and not by the
\* transport's interceptor.
C7_FailuresCaught ==
  \A t \in Turns :
    turns[t].failed \in IssuanceCalls
      => /\ turns[t].outcome = "caught"
         /\ LastReply(turns[t]) = Chat("UNKNOWN_ERROR", NoUnit)

\* C8: a turn not ended by payload decoding has the welcome message as its
\* first reply; when the identity has no username or no id, the turn has
\* returned with USERNAME_NOT_FOUND as the second and last reply and has
\* called nothing but the wallet-address read of the decoding step.
C8_WelcomeThenIdentity ==
  \A t \in Turns :
    LET tn == turns[t] IN
    (tn.pc # "idle" /\ tn.outcome # "decodeError")
      => /\ tn.replies[1] = Chat("WELCOME", NoUnit)
         /\ (tn.from.username = "" \/ tn.from.id = 0)
              => /\ tn.pc = "done"
                 /\ tn.replies = <<Chat("WELCOME", NoUnit),
                                   Chat("USERNAME_NOT_FOUND", NoUnit)>>
                 /\ \A k \in 1..Len(tn.calls) : tn.calls[k] = "getSessionWalletAddress"
                 /\ tn.devMsgs = <<>>

\* the identity lacks the id only, and session and wallet address are valid
C8_Witness ==
  \E t \in Turns :
    /\ turns[t].pc = "done"
    /\ turns[t].from.id = 0
    /\ turns[t].from.username # ""
    /\ turns[t].address # NoAddress
    /\ SessionCheck(GetSession(turns[t].deviceAddress), turns[t].sessionId) = "ok"

\* the identity and the session checks passed
ChecksPassed(tn) ==
  /\ Called(tn, "getSession")
  /\ IsSome(tn.session)
  /\ IsSome(tn.sessionId)
  /\ Slice(Val(tn.session).id) = Slice(Val(tn.sessionId))

\* C9: a turn that passed the identity and session checks with no wallet
\* address resolved has replied the pairing instructions right after the
\* welcome and returned: no attestation-data summary, no order lookup,
\* creation or update, no issuance, no session deletion.
C9_NoAddressAborts ==
  \A t \in Turns :
    (ChecksPassed(turns[t]) /\ turns[t].address = NoAddress)
      => /\ turns[t].pc = "done"
         /\ turns[t].replies = <<Chat("WELCOME", NoUnit), Chat("PAIRING", NoUnit)>>
         /\ turns[t].calls = <<"getSessionWalletAddress", "getSession">>
         /\ turns[t].devMsgs = <<>>

C9_Witness ==
  \E t \in Turns :
    /\ ChecksPassed(turns[t])
    /\ turns[t].address = NoAddress
    /\ turns[t].pc = "done"

\* C10: a call of walletAddressVerified with an address the validator accepts
\* sent the confirmation and then a link whose payload decodes to the device
\* address and the first four characters of the session id; with an address
\* the validator rejects it sent the invalid-address notice only and did not
\* read the session store.
C10_WalletAddressVerified ==
  \A k \in 1..Len(device) :
    LET c == device[k] IN
    c.op = "walletAddressVerified"
      => IF IsWalletAddress(c.wallet)
         THEN /\ Len(c.msgs) = 2
              /\ c.msgs[1] = DeviceMsg("VERIFIED", c.wallet, None)
              /\ c.msgs[2].text = "CONTINUE"
              /\ IsSome(c.msgs[2].link)
              /\ IsSome(c.session)
              /\ DecodePayload(Val(c.msgs[2].link)) =
                   [threw |-> FALSE, deviceAddress |-> Some(c.to),
                    sessionId |-> Some(Slice(Val(c.session).id))]
         ELSE /\ c.msgs = <<DeviceMsg("INVALID_WALLET_ADDRESS", NoAddress, None)>>
              /\ ~c.readSession


\* C11: every call of onAttestationProcessRequested sent the ask-for-address
\* prompt last, with the welcome notice before it exactly when getSession
\* returned no session and nothing else, and the step of the call changes
\* neither the session store nor an order.
C11_ProcessRequested ==
  /\ [](\A k \in 1..Len(device) :
          LET c == device[k] IN
          c.op = "onAttestationProcessRequested"
            => /\ ~c.threw
               /\ c.msgs[Len(c.msgs)] = DeviceMsg("ASK_ADDRESS", NoAddress, None)
               /\ IF IsSome(c.session)
                  THEN Len(c.msgs) = 1
                  ELSE /\ Len(c.msgs) = 2
                       /\ c.msgs[1] = DeviceMsg("WELCOME", NoAddress, None))
  /\ [][(/\ Len(device') = Len(device) + 1
          /\ device'[Len(device')].op = "onAttestationProcessRequested")
           => (sessions' = sessions /\ orders' = orders)]_vars

\* the method was called once with a session stored and once without
C11_Witness ==
  \E j, k \in 1..Len(device) :
    /\ device[j].op = "onAttestationProcessRequested"
    /\ device[k].op = "onAttestationProcessRequested"
    /\ IsSome(device[j].session)
    /\ ~IsSome(device[k].session)

\* C12: a turn whose payload decoded to no session id (no i parameter, or
\* no payload) and whose session lookup returned a session has returned with
\* INVALID_SESSION as its last reply, the comparison raising no error, and
\* has created or updated no order.
C12_MissingSessionId ==
  \A t \in Turns :
    LET tn == turns[t] IN
    (Called(tn, "getSession") /\ IsSome(tn.session) /\ ~IsSome(tn.sessionId))
      => /\ tn.pc = "done"
         /\ tn.outcome = "invalidSession"
         /\ LastReply(tn) = Chat("INVALID_SESSION", NoUnit)
         /\ NoEffects(tn)

\* C13: a turn whose postAttestationProfile or updateUnitAndChangeStatus
\* rejected has returned, caught, without marking an order and without
\* calling deleteSession, and whatever turns follow it, the issuer has
\* accepted at most one profile per (subject data, wallet address).
C13_FailedIssuanceRetryable ==
  /\ \A t \in Turns :
       LET tn == turns[t] IN
       tn.failed \in {"postAttestationProfile", "updateUnitAndChangeStatus"}
         => /\ tn.pc = "done"
            /\ tn.outcome = "caught"
            /\ ~tn.marked
            /\ ~Called(tn, "deleteSession")
  /\ \A i \in 1..Len(ledger) :
       Cardinality({j \in 1..Len(ledger) :
                      /\ ledger[j].data = ledger[i].data
                      /\ ledger[j].address = ledger[i].address}) <= 1

\* the replies that tell the chat how the turn ended
OutcomeReplies == {"DECODE_ERROR", "USERNAME_NOT_FOUND", "INVALID_SESSION", "PAIRING",
                   "ALREADY_ATTESTED", "ATTESTED", "UNKNOWN_ERROR"}

SentReply(tn, text) == \E k \in 1..Len(tn.replies) : tn.replies[k].text = text

\* C15: a turn that has returned, its turns interleaved with others or not,
\* has sent exactly one reply of OutcomeReplies, and never both the
\* attestation-success message and 'Unknown error occurred'.
C15_OneOutcomeReply ==
  \A t \in Turns :
    LET tn == turns[t] IN
    tn.pc = "done"
      => /\ Cardinality({k \in 1..Len(tn.replies) :
                           tn.replies[k].text \in OutcomeReplies}) = 1
         /\ ~(SentReply(tn, "ATTESTED") /\ SentReply(tn, "UNKNOWN_ERROR"))

\* C14: a step of the adapter (a step of a start turn or a call of a
\* device-facing method; not the pairing flow, not expiry) that changes the
\* session store is the deleteSession of a turn that marked an order
\* attested and ends as a successful attestation.
C14_SessionDeletedOnSuccessOnly ==
  [][(sessions' # sessions /\ (turns' # turns \/ device' # device))
       => \E t \in Turns :
            /\ turns[t].pc = "deleteSession"
            /\ turns'[t].pc = "done"
            /\ turns'[t].marked
            /\ turns'[t].outcome = "attested"]_vars

\* C16: a turn of a complete identity, no call of it rejecting, whose link
\* names a device address for which a turn had completed an attestation
\* before it started, no session having been created since then, gets no
\* further than the session check: it
\* has called neither postAttestationProfile nor a call that creates or
\* updates an order, and once returned its replies are the welcome and
\* INVALID_SESSION.
C16_LinkSingleUse ==
  \A t \in Turns :
    LET tn == turns[t] IN
    (/\ tn.reopened
     /\ Val(tn.deviceAddress) \in spent
     /\ tn.from.username # "" /\ tn.from.id # 0
     /\ tn.failed = "")
      => /\ tn.pc \in {"getSession", "done"}
         /\ NoEffects(tn)
         /\ tn.pc = "done"
              => tn.replies = <<Chat("WELCOME", NoUnit), Chat("INVALID_SESSION", NoUnit)>>

\* the same link, with its i parameter, opened again and answered
C16_Witness ==
  \E t \in Turns :
    /\ turns[t].reopened
    /\ D1 \in spent
    /\ turns[t].payload = Link(D1, SidA)
    /\ turns[t].pc = "done"
    /\ turns[t].outcome = "invalidSession"
    /\ Len(ledger) = 1

====
